---- MODULE Spec2Model ----
(***************************************************************************)
(* Request binding, validation and response shaping of the routes declared *)
(* in main.py.  Every route is one action: it draws a request, binds the   *)
(* declared parameters, runs the handler body and shapes the returned      *)
(* value through the route's response model.                               *)
(*                                                                         *)
(* Values are tagged records.  A float is kept as an integer count of      *)
(* ten-thousandths (50.2 is Float(502000)), so that 0.0001 is Float(1).    *)
(***************************************************************************)
EXTENDS Integers, Sequences, FiniteSets, TLC

VARIABLES fake_items_db, items, vehicle_items, request, response

vars == <<fake_items_db, items, vehicle_items, request, response>>

tables == <<fake_items_db, items, vehicle_items>>

(***************************************************************************)
(* Values: JSON documents, Python dicts and validated model instances.     *)
(***************************************************************************)
Null == [t |-> "null"]

Absent == [t |-> "absent"]

Str(s) == [t |-> "str", s |-> s]

IntV(i) == [t |-> "int", i |-> i]

Float(f) == [t |-> "float", f |-> f]

Bool(b) == [t |-> "bool", b |-> b]

List(l) == [t |-> "list", l |-> l]

Range(seq) == {seq[i] : i \in 1..Len(seq)}

\* A dict literal: keys in insertion order, a later pair overwrites.
Dict(pairs) ==
    LET ks == {pairs[i][1] : i \in 1..Len(pairs)}
        first(k) == CHOOSE i \in 1..Len(pairs) :
                        pairs[i][1] = k /\ \A j \in 1..(i-1) : pairs[j][1] /= k
        last(k) == CHOOSE i \in 1..Len(pairs) :
                        pairs[i][1] = k /\ \A j \in (i+1)..Len(pairs) : pairs[j][1] /= k
        firsts == {first(k) : k \in ks}
        RECURSIVE order(_)
        order(i) == IF i > Len(pairs) THEN <<>>
                    ELSE IF i \in firsts THEN <<pairs[i][1]>> \o order(i+1)
                    ELSE order(i+1)
    IN [t |-> "obj", keys |-> order(1), o |-> [k \in ks |-> pairs[last(k)][2]]]

\* dict.update(other)
Update(d, other) ==
    LET new == SelectSeq(other.keys, LAMBDA k : k \notin Range(d.keys))
    IN [t |-> "obj", keys |-> d.keys \o new,
        o |-> [k \in Range(d.keys) \cup Range(other.keys) |->
                  IF k \in Range(other.keys) THEN other.o[k] ELSE d.o[k]]]

\* Python truthiness of an optional string
Truthy(v) == v.t = "str" /\ Len(v.s) > 0

\* A text of n characters.
RECURSIVE Rep(_)
Rep(n) ==
    IF n = 0 THEN ""
    ELSE IF n % 2 = 1 THEN "a" \o Rep(n - 1)
    ELSE Rep(n \div 2) \o Rep(n \div 2)

RECURSIVE Concat(_)
Concat(seqs) == IF Len(seqs) = 0 THEN <<>> ELSE Head(seqs) \o Concat(Tail(seqs))

(***************************************************************************)
(* Declared shapes: field types, constraints and the models of main.py.    *)
(***************************************************************************)
TStr == [k |-> "str"]

TInt == [k |-> "int"]

TFloat == [k |-> "float"]

TBool == [k |-> "bool"]

TEmail == [k |-> "email"]

TUrl == [k |-> "url"]

TList(of) == [k |-> "list", of |-> of]

TModel(m) == [k |-> "model", m |-> m]

TEnum(values) == [k |-> "enum", values |-> values]

TUnion(alts) == [k |-> "union", alts |-> alts]

\* One declared field.  required = no default (or the default is `...`).
Field(name, type, required, default, allow_none, constraints) ==
    [name |-> name, type |-> type, required |-> required, default |-> default,
     allow_none |-> allow_none, constraints |-> constraints]

Gt(x) == [c |-> "gt", limit |-> x]

MinLength(n) == [c |-> "min_length", limit |-> n]

MaxLength(n) == [c |-> "max_length", limit |-> n]

DescriptionMaxLength == 300

PriceGt == 0

QMinLength == 3

QMaxLength == 50

BaseItem ==
    << Field("description", TStr, TRUE, Absent, FALSE, {}),
       Field("type", TStr, TRUE, Absent, FALSE, {}) >>

CarItem ==
    << Field("description", TStr, TRUE, Absent, FALSE, {}),
       Field("type", TStr, FALSE, Str("car"), FALSE, {}) >>

PlaneItem ==
    << Field("description", TStr, TRUE, Absent, FALSE, {}),
       Field("type", TStr, FALSE, Str("plane"), FALSE, {}) >>

Image ==
    << Field("url", TUrl, TRUE, Absent, FALSE, {}),
       Field("name", TStr, TRUE, Absent, FALSE, {}) >>

Item_price_any ==
    << Field("name", TStr, TRUE, Absent, FALSE, {}),
       Field("description", TStr, FALSE, Null, TRUE, {MaxLength(DescriptionMaxLength)}),
       Field("price", TFloat, TRUE, Absent, FALSE, {}),
       Field("tax", TFloat, FALSE, Float(105000), FALSE, {}),
       Field("tags", TList(TStr), FALSE, List(<<>>), FALSE, {}),
       Field("image", TList(TModel("Image")), FALSE, Null, TRUE, {}) >>

Item ==
    << Field("name", TStr, TRUE, Absent, FALSE, {}),
       Field("description", TStr, FALSE, Null, TRUE, {MaxLength(DescriptionMaxLength)}),
       Field("price", TFloat, TRUE, Absent, FALSE, {Gt(PriceGt)}),
       Field("tax", TFloat, FALSE, Float(105000), FALSE, {}),
       Field("tags", TList(TStr), FALSE, List(<<>>), FALSE, {}),
       Field("image", TList(TModel("Image")), FALSE, Null, TRUE, {}) >>

ModelName == <<"alexnet", "resnet", "lenet">>

Offer ==
    << Field("name", TStr, TRUE, Absent, FALSE, {}),
       Field("description", TStr, FALSE, Null, TRUE, {}),
       Field("price", TFloat, TRUE, Absent, FALSE, {}),
       Field("items", TList(TModel("Item")), TRUE, Absent, FALSE, {}) >>

UserBase ==
    << Field("username", TStr, TRUE, Absent, FALSE, {}),
       Field("email", TEmail, TRUE, Absent, FALSE, {}),
       Field("full_name", TStr, FALSE, Null, TRUE, {}) >>

UserIn == UserBase \o << Field("password", TStr, TRUE, Absent, FALSE, {}) >>

UserOut == UserBase

UserInDB == UserBase \o << Field("hashed_password", TStr, TRUE, Absent, FALSE, {}) >>

Fields(m) ==
    CASE m = "BaseItem" -> BaseItem
      [] m = "CarItem" -> CarItem
      [] m = "PlaneItem" -> PlaneItem
      [] m = "Image" -> Image
      [] m = "Item" -> Item
      [] m = "Offer" -> Offer
      [] m = "UserIn" -> UserIn
      [] m = "UserOut" -> UserOut
      [] m = "UserInDB" -> UserInDB

(***************************************************************************)
(* Validation: coercion, constraints and error aggregation.                *)
(***************************************************************************)
MaxInt == 9

NoCtx == [none |-> TRUE]

\* kind is the taxonomy class of the library's error type.
Err(loc, type, ctx) ==
    [loc |-> loc, type |-> type, ctx |-> ctx,
     kind |-> CASE type = "value_error.missing" -> "Missing"
                [] type \in {"value_error.number.not_gt",
                             "value_error.any_str.min_length",
                             "value_error.any_str.max_length"} -> "ConstraintViolation"
                [] OTHER -> "TypeMismatch"]

Ok(v) == [value |-> v, errors |-> <<>>]

Fail(errors) == [value |-> Absent, errors |-> errors]

IsIntText(s) == \E n \in (-MaxInt)..MaxInt : ToString(n) = s

\* int(s) on the decimal numerals of -MaxInt..MaxInt; any other text raises.
ParseInt(s) == CHOOSE n \in (-MaxInt)..MaxInt : ToString(n) = s

BoolTrue == {"1", "on", "t", "true", "y", "yes"}

BoolFalse == {"0", "off", "f", "false", "n", "no"}

\* Texts the e-mail and URL checks accept (name@domain; scheme and host).
WellFormedEmails == {"a@b.io", "c@d.io"}

WellFormedUrls == {"http://x.io/a.png"}

\* Coercion of a non-null value to a primitive type.
Coerce(type, v, loc) ==
    CASE type.k = "str" ->
           (CASE v.t = "str" -> Ok(v)
              [] v.t = "int" -> Ok(Str(ToString(v.i)))
              [] v.t \in {"list", "obj"} -> Fail(<<Err(loc, "type_error.str", NoCtx)>>))
      [] type.k = "float" ->
           (CASE v.t = "float" -> Ok(v)
              [] v.t = "int" -> Ok(Float(v.i * 10000))
              [] v.t = "str" ->
                   IF IsIntText(v.s) THEN Ok(Float(ParseInt(v.s) * 10000))
                   ELSE Fail(<<Err(loc, "type_error.float", NoCtx)>>)
              [] v.t \in {"list", "obj"} -> Fail(<<Err(loc, "type_error.float", NoCtx)>>))
      [] type.k = "int" ->
           (CASE v.t = "int" -> Ok(v)
              [] v.t = "str" ->
                   IF IsIntText(v.s) THEN Ok(IntV(ParseInt(v.s)))
                   ELSE Fail(<<Err(loc, "type_error.integer", NoCtx)>>)
              [] v.t \in {"list", "obj"} -> Fail(<<Err(loc, "type_error.integer", NoCtx)>>))
      [] type.k = "bool" ->
           (CASE v.t = "bool" -> Ok(v)
              [] v.t = "str" /\ v.s \in BoolTrue -> Ok(Bool(TRUE))
              [] v.t = "str" /\ v.s \in BoolFalse -> Ok(Bool(FALSE))
              [] OTHER -> Fail(<<Err(loc, "type_error.bool", NoCtx)>>))
      [] type.k = "email" ->
           (CASE v.t = "str" /\ v.s \in WellFormedEmails -> Ok(v)
              [] v.t = "str" -> Fail(<<Err(loc, "value_error.email", NoCtx)>>)
              [] OTHER -> Fail(<<Err(loc, "type_error.str", NoCtx)>>))
      [] type.k = "url" ->
           (CASE v.t = "str" /\ v.s \in WellFormedUrls -> Ok(v)
              [] v.t = "str" -> Fail(<<Err(loc, "value_error.url.scheme", NoCtx)>>)
              [] OTHER -> Fail(<<Err(loc, "type_error.str", NoCtx)>>))
      [] type.k = "enum" ->
           IF v.t = "str" /\ v.s \in Range(type.values)
           THEN Ok([t |-> "enum", s |-> v.s])
           ELSE Fail(<<Err(loc, "type_error.enum", [enum_values |-> type.values])>>)

\* One constraint on a coerced value: TRUE when it is violated.
Violates(c, v) ==
    CASE c.c = "gt" -> ~(v.f > c.limit * 10000)
      [] c.c = "min_length" -> Len(v.s) < c.limit
      [] c.c = "max_length" -> Len(v.s) > c.limit

ConstraintError(c, loc) ==
    Err(loc,
        CASE c.c = "gt" -> "value_error.number.not_gt"
          [] c.c = "min_length" -> "value_error.any_str.min_length"
          [] c.c = "max_length" -> "value_error.any_str.max_length",
        [constraint |-> c.c, limit_value |-> c.limit])

\* Constraints run only on a coerced value; the first violated one is reported.
Constrain(constraints, r, loc) ==
    IF r.errors /= <<>> \/ \A c \in constraints : ~Violates(c, r.value) THEN r
    ELSE Fail(<<ConstraintError(CHOOSE c \in constraints : Violates(c, r.value), loc)>>)

\* What validating one field adds to acc = [pairs, set, errors].
Collect(acc, name, r) ==
    IF r.errors /= <<>>
    THEN [acc EXCEPT !.errors = @ \o r.errors, !.set = @ \cup {name}]
    ELSE [acc EXCEPT !.pairs = @ \o <<<<name, r.value>>>>, !.set = @ \cup {name}]

\* An absent field: its default, or Missing when it has none.
Default(acc, f, loc) ==
    IF f.required
    THEN [acc EXCEPT !.errors = @ \o <<Err(loc, "value_error.missing", NoCtx)>>]
    ELSE [acc EXCEPT !.pairs = @ \o <<<<f.name, f.default>>>>]

\* The results of a list's elements: all their errors, or the list of values.
Gather(rs) ==
    IF \E i \in 1..Len(rs) : rs[i].errors /= <<>>
    THEN Fail(Concat([i \in 1..Len(rs) |-> rs[i].errors]))
    ELSE Ok(List([i \in 1..Len(rs) |-> rs[i].value]))

\* A union takes the first alternative that validates.
FirstValid(rs) ==
    IF \E i \in 1..Len(rs) : rs[i].errors = <<>>
    THEN rs[CHOOSE i \in 1..Len(rs) :
               rs[i].errors = <<>> /\ \A j \in 1..(i - 1) : rs[j].errors /= <<>>]
    ELSE Fail(Concat([i \in 1..Len(rs) |-> rs[i].errors]))

\* The instance built from the validated fields, or their errors.
Construct(m, acc) ==
    IF acc.errors /= <<>> THEN Fail(acc.errors)
    ELSE Ok([t |-> "model", m |-> m, keys |-> [i \in 1..Len(acc.pairs) |-> acc.pairs[i][1]],
             o |-> [k \in {acc.pairs[i][1] : i \in 1..Len(acc.pairs)} |->
                      acc.pairs[CHOOSE i \in 1..Len(acc.pairs) : acc.pairs[i][1] = k][2]],
             fields_set |-> acc.set])

RECURSIVE ValidateType(_, _, _, _, _)
RECURSIVE ValidateModel(_, _, _)
RECURSIVE ValidateFields(_, _, _, _)

\* A model built from a dict: every field in declaration order, absent ones
\* filled from their default, all errors kept.
ValidateFields(fields, v, loc, acc) ==
    IF fields = <<>> THEN acc
    ELSE ValidateFields(Tail(fields), v, loc,
           IF Head(fields).name \notin DOMAIN v.o
           THEN Default(acc, Head(fields), loc \o <<Head(fields).name>>)
           ELSE Collect(acc, Head(fields).name,
                        ValidateType(Head(fields).type, Head(fields).allow_none,
                                     Head(fields).constraints, v.o[Head(fields).name],
                                     loc \o <<Head(fields).name>>)))

\* An instance of the model is taken as it is, a dict is validated field by
\* field, and anything else goes through dict(value): an empty list or text
\* is the empty dict, a number or a non-empty text is not a dict.
ValidateModel(m, v, loc) ==
    CASE v.t = "model" /\ v.m = m -> Ok(v)
      [] v.t = "obj" ->
           Construct(m, ValidateFields(Fields(m), v, loc,
                                       [pairs |-> <<>>, set |-> {}, errors |-> <<>>]))
      [] v = List(<<>>) \/ v = Str("") ->
           Construct(m, ValidateFields(Fields(m), Dict(<<>>), loc,
                                       [pairs |-> <<>>, set |-> {}, errors |-> <<>>]))
      [] v.t \in {"str", "int", "float"} -> Fail(<<Err(loc, "type_error.dict", NoCtx)>>)

ValidateType(type, allow_none, constraints, v, loc) ==
    CASE v.t = "null" ->
           IF allow_none THEN Ok(Null)
           ELSE Fail(<<Err(loc, "type_error.none.not_allowed", NoCtx)>>)
      [] type.k = "list" ->
           IF v.t /= "list" THEN Fail(<<Err(loc, "type_error.list", NoCtx)>>)
           ELSE Gather([i \in 1..Len(v.l) |->
                          ValidateType(type.of, FALSE, {}, v.l[i],
                                       loc \o <<ToString(i - 1)>>)])
      [] type.k = "model" -> ValidateModel(type.m, v, loc)
      [] type.k = "union" ->
           FirstValid([i \in 1..Len(type.alts) |->
                         ValidateType(type.alts[i], FALSE, {}, v, loc)])
      [] OTHER -> Constrain(constraints, Coerce(type, v, loc), loc)

ValidateField(f, v, loc) == ValidateType(f.type, f.allow_none, f.constraints, v, loc)

(***************************************************************************)
(* Serialisation: Model.dict() and the JSON encoder.                       *)
(***************************************************************************)
NoFilter == [on |-> FALSE, names |-> {}]

Only(names) == [on |-> TRUE, names |-> names]

RECURSIVE ToDict(_, _, _, _)
\* Model.dict(include, exclude, exclude_unset); nested models keep exclude_unset.
ToDict(v, include, exclude, exclude_unset) ==
    CASE v.t = "model" ->
           LET keep(k) == /\ (exclude_unset => k \in v.fields_set)
                          /\ (exclude.on => k \notin exclude.names)
                          /\ (include.on => k \in include.names)
               ks == SelectSeq(v.keys, keep)
           IN [t |-> "obj", keys |-> ks,
               o |-> [k \in Range(ks) |-> ToDict(v.o[k], NoFilter, NoFilter, exclude_unset)]]
      [] v.t = "list" ->
           List([i \in 1..Len(v.l) |-> ToDict(v.l[i], NoFilter, NoFilter, exclude_unset)])
      [] OTHER -> v

RECURSIVE jsonable_encoder(_, _, _, _)
jsonable_encoder(v, include, exclude, exclude_unset) ==
    CASE v.t = "model" ->
           jsonable_encoder(ToDict(v, include, exclude, exclude_unset),
                            NoFilter, NoFilter, exclude_unset)
      [] v.t = "obj" ->
           [t |-> "obj", keys |-> v.keys,
            o |-> [k \in Range(v.keys) |->
                      jsonable_encoder(v.o[k], NoFilter, NoFilter, exclude_unset)]]
      [] v.t = "list" ->
           List([i \in 1..Len(v.l) |->
                    jsonable_encoder(v.l[i], NoFilter, NoFilter, exclude_unset)])
      [] v.t = "enum" -> Str(v.s)
      [] OTHER -> v

(***************************************************************************)
(* The routes of main.py: template, signature and response declaration.    *)
(***************************************************************************)
Lit(s) == [lit |-> s]

Cap(name) == [cap |-> name]

\* One parameter of a handler's signature; info is the marker it is given
\* (Query, Cookie, Header, Form) or "plain" when it has none.
Param(info, field) == [info |-> info, field |-> field]

Required(name, type) == Field(name, type, TRUE, Absent, FALSE, {})

Optional(name, type) == Field(name, type, FALSE, Null, TRUE, {})

Route(name, template, params, response_model, include, exclude, exclude_unset, status_code) ==
    [name |-> name, template |-> template, params |-> params,
     response_model |-> response_model, include |-> include, exclude |-> exclude,
     exclude_unset |-> exclude_unset, status_code |-> status_code]

NoModel == [k |-> "none"]

Plain(name, template, params, status_code) ==
    Route(name, template, params, NoModel, NoFilter, NoFilter, FALSE, status_code)

R_root == Plain("root", <<>>, <<>>, 200)

R_read_items_no_min ==
    Plain("read_items", <<Lit("items"), Lit("")>>,
          << Param("Cookie", Optional("ads_id", TStr)),
             Param("Query", Field("q", TStr, FALSE, Null, TRUE, {MaxLength(QMaxLength)})),
             Param("Header", Optional("user_agent", TStr)) >>, 200)

R_read_items ==
    Plain("read_items", <<Lit("items"), Lit("")>>,
          << Param("Cookie", Optional("ads_id", TStr)),
             Param("Query", Field("q", TStr, FALSE, Null, TRUE,
                                  {MinLength(QMinLength), MaxLength(QMaxLength)})),
             Param("Header", Optional("user_agent", TStr)) >>, 200)

R_read_item_id_unset_kept ==
    Route("read_item_id", <<Lit("items"), Cap("item_id")>>,
          << Param("plain", Required("item_id", TStr)) >>,
          TModel("Item"), NoFilter, NoFilter, FALSE, 200)

R_read_item_id ==
    Route("read_item_id", <<Lit("items"), Cap("item_id")>>,
          << Param("plain", Required("item_id", TStr)) >>,
          TModel("Item"), NoFilter, NoFilter, TRUE, 200)

R_read_item_name ==
    Route("read_item_name", <<Lit("items"), Cap("item_id"), Lit("name")>>,
          << Param("plain", Required("item_id", TStr)) >>,
          TModel("Item"), Only({"name", "description"}), NoFilter, FALSE, 200)

R_read_item_public_data_unset ==
    Route("read_item_public_data", <<Lit("items"), Cap("item_id"), Lit("public")>>,
          << Param("plain", Required("item_id", TStr)) >>,
          TModel("Item"), NoFilter, Only({"tax"}), TRUE, 200)

R_read_item_public_data ==
    Route("read_item_public_data", <<Lit("items"), Cap("item_id"), Lit("public")>>,
          << Param("plain", Required("item_id", TStr)) >>,
          TModel("Item"), NoFilter, Only({"tax"}), FALSE, 200)

R_read_user_me == Plain("read_user_me", <<Lit("users"), Lit("me")>>, <<>>, 200)

R_read_user_item ==
    Plain("read_user_item",
          <<Lit("users"), Cap("user_id"), Lit("items"), Cap("items_id")>>,
          << Param("plain", Required("user_id", TInt)),
             Param("plain", Required("item_id", TStr)),
             Param("plain", Required("needy", TStr)),
             Param("plain", Optional("q", TStr)),
             Param("plain", Field("short", TBool, FALSE, Bool(FALSE), FALSE, {})) >>, 200)

R_get_model ==
    Plain("get_model", <<Lit("models"), Cap("model_name")>>,
          << Param("plain", Required("model_name", TEnum(ModelName))) >>, 200)

R_read_file ==
    Plain("read_file", <<Lit("files"), Cap("file_path")>>,
          << Param("plain", Required("file_path", TStr)) >>, 200)

R_read_vehicle_item ==
    Route("read_vehicle_item", <<Lit("vehicle_items"), Cap("item_id")>>,
          << Param("plain", Required("item_id", TStr)) >>,
          TUnion(<<TModel("PlaneItem"), TModel("CarItem")>>),
          NoFilter, NoFilter, FALSE, 200)

R_create_multiple_images ==
    Plain("create_multiple_images", <<Lit("images"), Lit("multiple"), Lit("")>>,
          << Param("plain", Required("images", TList(TModel("Image")))) >>, 200)

R_create_item ==
    Plain("create_item", <<Lit("items"), Lit("")>>,
          << Param("plain", Required("name", TStr)) >>, 201)

R_login ==
    Plain("login", <<Lit("login")>>,
          << Param("Form", Required("username", TStr)),
             Param("Form", Required("password", TStr)) >>, 200)

R_create_offer ==
    Plain("create_offer", <<Lit("offers")>>,
          << Param("plain", Required("offer", TModel("Offer"))) >>, 200)

R_create_user_in_db ==
    Route("create_user", <<Lit("user"), Lit("")>>,
          << Param("plain", Required("user_in", TModel("UserIn"))) >>,
          TModel("UserInDB"), NoFilter, NoFilter, FALSE, 200)

R_create_user ==
    Route("create_user", <<Lit("user"), Lit("")>>,
          << Param("plain", Required("user_in", TModel("UserIn"))) >>,
          TModel("UserOut"), NoFilter, NoFilter, FALSE, 200)

R_update_item ==
    Plain("update_item", <<Lit("items"), Cap("item_id")>>,
          << Param("plain", Required("item_id", TInt)),
             Param("plain", Required("item", TModel("Item"))) >>, 200)

(***************************************************************************)
(* Handlers.  a is the keyword arguments the binder passes.  A handler     *)
(* returns a value or raises, and leaves the module-level tables as `db`.  *)
(***************************************************************************)
DB == [fake_items_db |-> fake_items_db, items |-> items, vehicle_items |-> vehicle_items]

Return(v) == [raised |-> FALSE, value |-> v, exc |-> "", db |-> DB]

Raise(exc) == [raised |-> TRUE, value |-> Null, exc |-> exc, db |-> DB]

\* d[key] on a Python dict
GetItem(d, key) == IF key \in DOMAIN d.o THEN Return(d.o[key]) ELSE Raise("KeyError")

fake_password_hasher(raw_password) == "supersecret" \o raw_password

fake_save_user(user_in) ==
    ValidateModel("UserInDB",
                  Update(ToDict(user_in, NoFilter, NoFilter, FALSE),
                         Dict(<< <<"hashed_password",
                                   Str(fake_password_hasher(user_in.o.password.s))>> >>)),
                  <<>>)

root(a) == Return(Dict(<< <<"message", Str("Welcome Home!")>> >>))

read_items(a) ==
    LET r0 == Dict(<< <<"items", List(<< Dict(<< <<"item_id", Str("Foo")>> >>),
                                         Dict(<< <<"item_id", Str("Bar")>> >>) >>)>> >>)
        r1 == IF Truthy(a.user_agent)
              THEN Update(r0, Dict(<< <<"User-Agent", a.user_agent>> >>)) ELSE r0
        r2 == IF Truthy(a.ads_id)
              THEN Update(r1, Dict(<< <<"ads_id", a.ads_id>> >>)) ELSE r1
        results == IF Truthy(a.q) THEN Update(r2, Dict(<< <<"q", a.q>> >>)) ELSE r2
    IN Return(results)

read_item_id(a) == GetItem(items, a.item_id.s)

read_item_name(a) == GetItem(items, a.item_id.s)

read_item_public_data(a) == GetItem(items, a.item_id.s)

read_user_me(a) == Return(Dict(<< <<"user_id", Str("the current user")>> >>))

read_user_item(a) ==
    LET i0 == Dict(<< <<"item_id", a.item_id>>, <<"needy", a.needy>>,
                      <<"owner_id", a.user_id>> >>)
        i1 == IF Truthy(a.q) THEN Update(i0, Dict(<< <<"q", a.q>> >>)) ELSE i0
        item == IF ~a.short.b
                THEN Update(i1, Dict(<< <<"description",
                        Str("This is an amazing item that has a long description")>> >>))
                ELSE i1
    IN Return(item)

get_model_swapped(a) ==
    IF a.model_name = [t |-> "enum", s |-> "alexnet"]
    THEN Return(Dict(<< <<"model_name", a.model_name>>,
                        <<"message", Str("Deep Learning FTW!")>> >>))
    ELSE IF a.model_name.s = "resnet"
    THEN Return(Dict(<< <<"model_name", a.model_name>>,
                        <<"message", Str("LeCNN all the images")>> >>))
    ELSE Return(Dict(<< <<"model_name", a.model_name>>,
                        <<"message", Str("Have some residuals")>> >>))

get_model(a) ==
    IF a.model_name = [t |-> "enum", s |-> "alexnet"]
    THEN Return(Dict(<< <<"model_name", a.model_name>>,
                        <<"message", Str("Deep Learning FTW!")>> >>))
    ELSE IF a.model_name.s = "lenet"
    THEN Return(Dict(<< <<"model_name", a.model_name>>,
                        <<"message", Str("LeCNN all the images")>> >>))
    ELSE Return(Dict(<< <<"model_name", a.model_name>>,
                        <<"message", Str("Have some residuals")>> >>))

read_file(a) == Return(Dict(<< <<"file_path", a.file_path>> >>))

read_vehicle_item(a) == GetItem(vehicle_items, a.item_id.s)

create_multiple_images(a) == Return(a.images)

create_item(a) == Return(Dict(<< <<"name", a.name>> >>))

login(a) == Return(Dict(<< <<"username", a.username>> >>))

create_offer(a) == Return(a.offer)

\* The saved user is returned; a failed construction would propagate.
Saved(user_saved) ==
    IF user_saved.errors /= <<>> THEN Raise("ValidationError")
    ELSE Return(user_saved.value)

create_user(a) == Saved(fake_save_user(a.user_in))

update_item_storing(a) ==
    [Return(Dict(<< <<"item_id", a.item_id>>, <<"item", a.item>> >>))
       EXCEPT !.db.items =
         Update(items, Dict(<< <<ToString(a.item_id.i),
                                 ToDict(a.item, NoFilter, NoFilter, TRUE)>> >>))]

update_item(a) == Return(Dict(<< <<"item_id", a.item_id>>, <<"item", a.item>> >>))

Call(name, a) ==
    CASE name = "root" -> root(a)
      [] name = "read_items" -> read_items(a)
      [] name = "read_item_id" -> read_item_id(a)
      [] name = "read_item_name" -> read_item_name(a)
      [] name = "read_item_public_data" -> read_item_public_data(a)
      [] name = "read_user_me" -> read_user_me(a)
      [] name = "read_user_item" -> read_user_item(a)
      [] name = "get_model" -> get_model(a)
      [] name = "read_file" -> read_file(a)
      [] name = "read_vehicle_item" -> read_vehicle_item(a)
      [] name = "create_multiple_images" -> create_multiple_images(a)
      [] name = "create_item" -> create_item(a)
      [] name = "login" -> login(a)
      [] name = "create_offer" -> create_offer(a)
      [] name = "create_user" -> create_user(a)
      [] name = "update_item" -> update_item(a)

(***************************************************************************)
(* The binder: where each parameter comes from, extraction, aggregation.   *)
(***************************************************************************)
PathParamNames(template) ==
    {template[i].cap : i \in {j \in 1..Len(template) : "cap" \in DOMAIN template[j]}}

IsScalar(type) == type.k \in {"str", "int", "float", "bool", "email", "url", "enum"}

\* A parameter named in the route template is a path parameter; otherwise its
\* marker decides, and an unmarked one is a query parameter when its type is
\* scalar and the request body when it is a model or a list.
ParamIn(route, p) ==
    IF p.field.name \in PathParamNames(route.template) THEN "path"
    ELSE CASE p.info = "Query" -> "query"
           [] p.info = "Header" -> "header"
           [] p.info = "Cookie" -> "cookie"
           [] p.info = "Form" -> "form"
           [] p.info = "plain" -> IF IsScalar(p.field.type) THEN "query" ELSE "body"

\* Header names are looked up with underscores turned into hyphens.
Alias(in, name) ==
    IF in = "header" /\ name = "user_agent" THEN "user-agent" ELSE name

RECURSIVE request_params_to_args(_, _, _, _)
\* Every parameter is visited, whatever failed before it.
request_params_to_args(in, params, received, acc) ==
    IF params = <<>> THEN acc
    ELSE request_params_to_args(in, Tail(params), received,
           IF Alias(in, Head(params).field.name) \notin DOMAIN received
           THEN Default(acc, Head(params).field,
                        <<in, Alias(in, Head(params).field.name)>>)
           ELSE Collect(acc, Head(params).field.name,
                        ValidateField(Head(params).field,
                                      Str(received[Alias(in, Head(params).field.name)]),
                                      <<in, Alias(in, Head(params).field.name)>>)))

\* The raw value of a body parameter: a form field by name, the whole body
\* for a single unmarked parameter, otherwise the body's member of that name.
BodyValue(p, req, omitted) ==
    IF p.info = "Form"
    THEN IF p.field.name \in DOMAIN req.form THEN Str(req.form[p.field.name]) ELSE Absent
    ELSE IF omitted THEN req.body
    ELSE IF req.body.t = "obj" /\ p.field.name \in DOMAIN req.body.o
         THEN req.body.o[p.field.name] ELSE Absent

\* A single unmarked body parameter is reported at ("body",).
BodyLoc(p, omitted) == IF omitted THEN <<"body">> ELSE <<"body", p.field.name>>

\* No body, a null body and an empty form value all count as not sent.
BodyMissing(p, value) ==
    value.t \in {"absent", "null"} \/ (p.info = "Form" /\ value = Str(""))

RECURSIVE request_body_to_args(_, _, _, _)
request_body_to_args(params, req, omitted, acc) ==
    IF params = <<>> THEN acc
    ELSE request_body_to_args(Tail(params), req, omitted,
           IF BodyMissing(Head(params), BodyValue(Head(params), req, omitted))
           THEN Default(acc, Head(params).field, BodyLoc(Head(params), omitted))
           ELSE Collect(acc, Head(params).field.name,
                        ValidateField(Head(params).field,
                                      BodyValue(Head(params), req, omitted),
                                      BodyLoc(Head(params), omitted))))

ParamsIn(route, ins) == SelectSeq(route.params, LAMBDA p : ParamIn(route, p) \in ins)

solve_dependencies_first_failure(route, req) ==
    IF request_params_to_args("path", ParamsIn(route, {"path"}), req.path_params,
                              [pairs |-> <<>>, set |-> {}, errors |-> <<>>]).errors /= <<>>
    THEN request_params_to_args("path", ParamsIn(route, {"path"}), req.path_params,
                                [pairs |-> <<>>, set |-> {}, errors |-> <<>>])
    ELSE request_body_to_args(
           ParamsIn(route, {"form", "body"}), req,
           Len(ParamsIn(route, {"form", "body"})) = 1
               /\ ParamsIn(route, {"form", "body"})[1].info /= "Form",
           request_params_to_args("cookie", ParamsIn(route, {"cookie"}), req.cookies,
             request_params_to_args("header", ParamsIn(route, {"header"}), req.headers,
               request_params_to_args("query", ParamsIn(route, {"query"}), req.query,
                 request_params_to_args("path", ParamsIn(route, {"path"}), req.path_params,
                                        [pairs |-> <<>>, set |-> {}, errors |-> <<>>])))))

\* Path, query, header and cookie parameters, then the body; errors of all kept.
solve_dependencies(route, req) ==
    request_body_to_args(
        ParamsIn(route, {"form", "body"}), req,
        Len(ParamsIn(route, {"form", "body"})) = 1
            /\ ParamsIn(route, {"form", "body"})[1].info /= "Form",
        request_params_to_args("cookie", ParamsIn(route, {"cookie"}), req.cookies,
          request_params_to_args("header", ParamsIn(route, {"header"}), req.headers,
            request_params_to_args("query", ParamsIn(route, {"query"}), req.query,
              request_params_to_args("path", ParamsIn(route, {"path"}), req.path_params,
                                     [pairs |-> <<>>, set |-> {}, errors |-> <<>>])))))

(***************************************************************************)
(* The response: validation against the response model, then encoding.     *)
(***************************************************************************)
\* A returned model instance is turned into a dict before it is validated.
prepare_response_content(v, exclude_unset) ==
    IF v.t = "model" THEN ToDict(v, NoFilter, NoFilter, exclude_unset) ELSE v

\* The validated value encoded under the route's shaping, or the errors.
Shape(route, r) ==
    IF r.errors /= <<>> THEN r
    ELSE Ok(jsonable_encoder(r.value, route.include, route.exclude, route.exclude_unset))

serialize_response(route, content) ==
    IF route.response_model = NoModel
    THEN Ok(jsonable_encoder(content, NoFilter, NoFilter, FALSE))
    ELSE Shape(route, ValidateType(route.response_model, FALSE, {},
                                   prepare_response_content(content, route.exclude_unset),
                                   <<"response">>))

NoResponse ==
    [status |-> 0, outcome |-> "none", body |-> Null, errors |-> <<>>,
     handler_ran |-> FALSE, exc |-> ""]

\* The handler returned h; out is its value through the response model.  An
\* error there is raised on the server, not reported to the caller.
Respond(route, h, out) ==
    IF out.errors /= <<>>
    THEN [db |-> h.db,
          resp |-> [NoResponse EXCEPT !.status = 500, !.outcome = "unhandled_exception",
                                      !.handler_ran = TRUE, !.exc = "ValidationError"]]
    ELSE [db |-> h.db,
          resp |-> [NoResponse EXCEPT !.status = route.status_code, !.outcome = "success",
                                      !.body = out.value, !.handler_ran = TRUE]]

\* The handler ran with the bound arguments and ended as h.
Ran(route, h) ==
    IF h.raised
    THEN [db |-> h.db,
          resp |-> [NoResponse EXCEPT !.status = 500, !.outcome = "unhandled_exception",
                                      !.handler_ran = TRUE, !.exc = h.exc]]
    ELSE Respond(route, h, serialize_response(route, h.value))

\* Binding ended as bound: any error answers 422 and the handler is not called.
Bound(route, bound) ==
    IF bound.errors /= <<>>
    THEN [db |-> DB,
          resp |-> [NoResponse EXCEPT !.status = 422, !.outcome = "validation_failure",
                                      !.errors = bound.errors]]
    ELSE Ran(route, Call(route.name,
                         [k \in {bound.pairs[i][1] : i \in 1..Len(bound.pairs)} |->
                            bound.pairs[CHOOSE i \in 1..Len(bound.pairs) :
                                           bound.pairs[i][1] = k][2]]))

\* One request through one route: bind, call, shape.  resp is what the caller
\* gets, db the tables the handler leaves behind.
Handle(route, req) == Bound(route, solve_dependencies(route, req))

(***************************************************************************)
(* Requests drawn by the actions.                                          *)
(***************************************************************************)
MaxQLen == 52

MaxListLen == 1

MaxTags == 2

\* At most one value: {} is "not sent".
Opt(S) == {{}} \cup {{v} : v \in S}

Entry(key, opt) == {<<key, v>> : v \in opt}

RawMap(entries) ==
    [k \in {e[1] : e \in entries} |-> (CHOOSE e \in entries : e[1] = k)[2]]

\* A JSON object of the pairs whose value is sent.
JsonObj(pairs) == Dict(SelectSeq(pairs, LAMBDA pr : pr[2] /= Absent))

Lists(S, n) == {List(l) : l \in UNION {[1..m -> S] : m \in 0..n}}

Req(route, path_params, query, headers, cookies, form, body) ==
    [route |-> route.name, path_params |-> path_params, query |-> query,
     headers |-> headers, cookies |-> cookies, form |-> form, body |-> body]

NoRequest == Req([name |-> "none"], <<>>, <<>>, <<>>, <<>>, <<>>, Absent)

ItemIds == {"foo", "bar", "baz", "item1", "item2", "nope"}

ImageBodies ==
    { JsonObj(<< <<"url", u>>, <<"name", n>> >>) :
        u \in {Str("http://x.io/a.png"), Str("string")}, n \in {Str("pic"), Absent} }

ItemBodies ==
    { JsonObj(<< <<"name", name>>, <<"description", description>>, <<"price", price>>,
                 <<"tax", tax>>, <<"tags", tags>>, <<"image", image>> >>) :
        name \in {Absent, Str("Foo"), List(<<>>)},
        description \in {Absent, Null, Str(Rep(DescriptionMaxLength)),
                         Str(Rep(DescriptionMaxLength + 1))},
        price \in {Absent, Float(-1), Float(0), Float(1), IntV(62), Str("abc")},
        tax \in {Absent, Float(32000)},
        tags \in {Absent, Str("t")} \cup Lists({Str("t"), List(<<>>)}, MaxTags),
        image \in {Absent, Null} \cup Lists(ImageBodies, MaxListLen) }

OfferItemBodies ==
    { JsonObj(<< <<"name", name>>, <<"price", price>> >>) :
        name \in {Absent, Str("Foo")},
        price \in {Float(-502000), Float(0), Float(1)} }

OfferBodies ==
    { JsonObj(<< <<"name", name>>, <<"price", price>>, <<"items", its>> >>) :
        name \in {Absent, Str("Deal")},
        price \in {Absent, Float(0)},
        its \in {Absent} \cup Lists(OfferItemBodies, MaxListLen) }

UserBodies ==
    { JsonObj(<< <<"username", username>>, <<"email", email>>,
                 <<"full_name", full_name>>, <<"password", password>> >>) :
        username \in {Absent, Str("ann")},
        email \in {Absent, Str("a@b.io"), Str("not-an-email")},
        full_name \in {Absent, Null, Str("Ann Lee")},
        password \in {Absent, Str("pw1"), Str("pw2")} }

(***************************************************************************)
(* State machine: the tables as main.py builds them, one action per route. *)
(***************************************************************************)
fake_items_db_0 ==
    List(<< Dict(<< <<"item_name", Str("Foo")>> >>),
            Dict(<< <<"item_name", Str("Bar")>> >>),
            Dict(<< <<"item_name", Str("Baz")>> >>) >>)

items_0 ==
    Dict(<<
      <<"foo", Dict(<< <<"name", Str("Foo")>>, <<"price", Float(502000)>> >>)>>,
      <<"bar", Dict(<< <<"name", Str("Bar")>>, <<"description", Str("The Bar Fighters")>>,
                       <<"price", IntV(62)>>, <<"tax", Float(202000)>> >>)>>,
      <<"baz", Dict(<< <<"name", Str("Baz")>>, <<"description", Str("There goes my baz")>>,
                       <<"price", Float(502000)>>, <<"tax", Float(105000)>> >>)>> >>)

vehicle_items_0 ==
    Dict(<<
      <<"item1", Dict(<< <<"description", Str("All my friends drive a low rider")>>,
                         <<"type", Str("car")>> >>)>>,
      <<"item2", Dict(<< <<"description", Str("Music is my aeroplane, it's my aeroplane")>>,
                         <<"type", Str("plane")>>, <<"size", IntV(5)>> >>)>> >>)

Init ==
    /\ fake_items_db = fake_items_db_0
    /\ items = items_0
    /\ vehicle_items = vehicle_items_0
    /\ request = NoRequest
    /\ response = NoResponse

\* The request ended as out: the caller gets resp, the tables become db.
Commit(req, out) ==
    /\ request' = req
    /\ response' = out.resp
    /\ fake_items_db' = out.db.fake_items_db
    /\ items' = out.db.items
    /\ vehicle_items' = out.db.vehicle_items

Serve(route, req) == Commit(req, Handle(route, req))

Root ==
    /\ request = NoRequest
    /\ Serve(R_root, Req(R_root, <<>>, <<>>, <<>>, <<>>, <<>>, Absent))

ReadItems ==
    /\ request = NoRequest
    /\ \E q \in Opt({Rep(n) : n \in 0..MaxQLen}), ua \in Opt({"curl"}), ads \in Opt({"ad1"}) :
           Serve(R_read_items,
                 Req(R_read_items, <<>>, RawMap(Entry("q", q)),
                     RawMap(Entry("user-agent", ua)), RawMap(Entry("ads_id", ads)),
                     <<>>, Absent))

ReadItemId ==
    /\ request = NoRequest
    /\ \E id \in ItemIds :
           Serve(R_read_item_id,
                 Req(R_read_item_id, [item_id |-> id], <<>>, <<>>, <<>>, <<>>, Absent))

ReadItemName ==
    /\ request = NoRequest
    /\ \E id \in ItemIds :
           Serve(R_read_item_name,
                 Req(R_read_item_name, [item_id |-> id], <<>>, <<>>, <<>>, <<>>, Absent))

ReadItemPublicData ==
    /\ request = NoRequest
    /\ \E id \in ItemIds :
           Serve(R_read_item_public_data,
                 Req(R_read_item_public_data, [item_id |-> id], <<>>, <<>>, <<>>, <<>>,
                     Absent))

ReadUserMe ==
    /\ request = NoRequest
    /\ Serve(R_read_user_me, Req(R_read_user_me, <<>>, <<>>, <<>>, <<>>, <<>>, Absent))

ReadUserItem ==
    /\ request = NoRequest
    /\ \E u \in {"1", "7", "abc"}, x \in {"x", "y"}, item_id \in Opt({"y", "z"}),
          needy \in Opt({"n"}), q \in Opt({"s"}), short \in Opt({"true", "no", "maybe"}) :
           Serve(R_read_user_item,
                 Req(R_read_user_item, [user_id |-> u, items_id |-> x],
                     RawMap(Entry("item_id", item_id) \cup Entry("needy", needy)
                            \cup Entry("q", q) \cup Entry("short", short)),
                     <<>>, <<>>, <<>>, Absent))

GetModel ==
    /\ request = NoRequest
    /\ \E name \in {"alexnet", "resnet", "lenet", "vgg", "Lenet"} :
           Serve(R_get_model,
                 Req(R_get_model, [model_name |-> name], <<>>, <<>>, <<>>, <<>>, Absent))

ReadFile ==
    /\ request = NoRequest
    /\ \E file_path \in {"a/b/c.txt", "c.txt"} :
           Serve(R_read_file,
                 Req(R_read_file, [file_path |-> file_path], <<>>, <<>>, <<>>, <<>>, Absent))

ReadVehicleItem ==
    /\ request = NoRequest
    /\ \E id \in ItemIds :
           Serve(R_read_vehicle_item,
                 Req(R_read_vehicle_item, [item_id |-> id], <<>>, <<>>, <<>>, <<>>, Absent))

CreateMultipleImages ==
    /\ request = NoRequest
    /\ \E body \in {Absent} \cup Lists(ImageBodies, MaxListLen) :
           Serve(R_create_multiple_images,
                 Req(R_create_multiple_images, <<>>, <<>>, <<>>, <<>>, <<>>, body))

CreateItem ==
    /\ request = NoRequest
    /\ \E name \in Opt({"Foo"}) :
           Serve(R_create_item,
                 Req(R_create_item, <<>>, RawMap(Entry("name", name)), <<>>, <<>>, <<>>,
                     Absent))

Login ==
    /\ request = NoRequest
    /\ \E username \in Opt({"", "ann"}), password \in Opt({"", "pw1"}) :
           Serve(R_login,
                 Req(R_login, <<>>, <<>>, <<>>, <<>>,
                     RawMap(Entry("username", username) \cup Entry("password", password)),
                     Absent))

CreateOffer ==
    /\ request = NoRequest
    /\ \E body \in {Absent} \cup OfferBodies :
           Serve(R_create_offer, Req(R_create_offer, <<>>, <<>>, <<>>, <<>>, <<>>, body))

CreateUser ==
    /\ request = NoRequest
    /\ \E body \in {Absent} \cup UserBodies :
           Serve(R_create_user, Req(R_create_user, <<>>, <<>>, <<>>, <<>>, <<>>, body))

UpdateItem ==
    /\ request = NoRequest
    /\ \E id \in {"5", "abc"}, body \in {Absent, List(<<>>), Str("Foo")} \cup ItemBodies :
           Serve(R_update_item,
                 Req(R_update_item, [item_id |-> id], <<>>, <<>>, <<>>, <<>>, body))

\* The response has been sent: what was built for the request is dropped.
Discard ==
    /\ request /= NoRequest
    /\ request' = NoRequest
    /\ response' = NoResponse
    /\ UNCHANGED tables

Next ==
    \/ Root
    \/ ReadItems
    \/ ReadItemId
    \/ ReadItemName
    \/ ReadItemPublicData
    \/ ReadUserMe
    \/ ReadUserItem
    \/ GetModel
    \/ ReadFile
    \/ ReadVehicleItem
    \/ CreateMultipleImages
    \/ CreateItem
    \/ Login
    \/ CreateOffer
    \/ CreateUser
    \/ UpdateItem
    \/ Discard

Spec == Init /\ [][Next]_vars

(***************************************************************************)
(* Properties.                                                             *)
(***************************************************************************)
Served(route) == request.route = route /\ response.outcome = "success"

Rejected(route) == request.route = route /\ response.outcome = "validation_failure"

Known(table) == request.path_params.item_id \in DOMAIN table.o

\* C1: GET /items/{item_id} on a stored record returns exactly the fields the
\* record supplies and none that a default filled in: foo is {name, price},
\* baz keeps its tax although 10.5 is also the default.
C1_ExcludeUnset ==
    (request.route = "read_item_id" /\ Known(items)) =>
        /\ response.outcome = "success"
        /\ Range(response.body.keys) = DOMAIN items.o[request.path_params.item_id].o
        /\ request.path_params.item_id = "foo" =>
             response.body = Dict(<< <<"name", Str("Foo")>>, <<"price", Float(502000)>> >>)
        /\ request.path_params.item_id = "baz" =>
             /\ response.body.keys = <<"name", "description", "price", "tax">>
             /\ response.body.o.tax = Float(105000)

C1_Witness ==
    /\ Served("read_item_id")
    /\ request.path_params.item_id = "baz"
    /\ "tax" \in Range(response.body.keys)

\* The field an error is about: the parameter, or the member of the body.
ErrField(e) == IF Len(e.loc) >= 2 THEN e.loc[2] ELSE e.loc[1]

DeclOrder ==
    IF request.route = "login" THEN <<"username", "password">>
    ELSE <<"item_id", "name", "description", "price", "tax", "tags", "image">>

ItemField(name) == Item[CHOOSE i \in 1..Len(Item) : Item[i].name = name]

\* The body reads as a dict: it is an object, or empty and taken as {}.
IsDict(v) == v.t = "obj" \/ v = List(<<>>) \/ v = Str("")

Members(v) == IF v.t = "obj" THEN v.o ELSE <<>>

\* The errors a member of the body object has on its own.
OwnErrors(name) ==
    IF name \in DOMAIN Members(request.body)
    THEN ValidateField(ItemField(name), request.body.o[name], <<"body", name>>).errors
    ELSE IF ItemField(name).required
    THEN <<Err(<<"body", name>>, "value_error.missing", NoCtx)>>
    ELSE <<>>

\* A field taken alone fails: not sent though required, or sent and invalid.
FailsAlone(name) ==
    CASE request.route = "login" ->
           name \notin DOMAIN request.form \/ request.form[name] = ""
      [] name = "item_id" -> ~IsIntText(request.path_params.item_id)
      [] IsDict(request.body) -> OwnErrors(name) /= <<>>
      [] OTHER -> ItemField(name).required

\* C2 as stated: on POST /login and PUT /items/{item_id} the report holds
\* exactly one error for every field that fails on its own, in declaration
\* order, none for a field that passes, and success means no error.
C2_OneErrorPerField ==
    request.route \in {"login", "update_item"} =>
        /\ [i \in 1..Len(response.errors) |-> ErrField(response.errors[i])]
             = SelectSeq(DeclOrder, FailsAlone)
        /\ \A i \in 1..Len(response.errors) :
             response.errors[i].kind \in {"Missing", "TypeMismatch", "ConstraintViolation"}
        /\ response.outcome = "success" <=> response.errors = <<>>

PathErrors ==
    IF IsIntText(request.path_params.item_id) THEN <<>>
    ELSE <<Err(<<"path", "item_id">>, "type_error.integer", NoCtx)>>

\* The report is the path error and then one error of this kind for the body
\* as a whole.
WholeBodyError(kind) ==
    /\ response.errors /= <<>>
    /\ response.errors = PathErrors \o <<response.errors[Len(response.errors)]>>
    /\ response.errors[Len(response.errors)].kind = kind
    /\ response.errors[Len(response.errors)].loc[1] = "body"
    /\ Len(response.errors[Len(response.errors)].loc) <= 2

\* C2 (amended): binding never stops at the first failure.  POST /login
\* reports one Missing per form field that is absent or empty, in order.
\* PUT /items/{item_id} reports the path error, then for a body that is an
\* object the errors of each Item field in declaration order: at most one
\* for a scalar field, one per failing element (or element field) for tags
\* and image.  A body that is absent or does not read as an object is one
\* error at the body as a whole.  The request succeeds only if no error was
\* collected.
C2_Aggregation ==
    /\ request.route = "login" =>
         /\ response.errors =
              [i \in 1..Len(SelectSeq(DeclOrder, FailsAlone)) |->
                 Err(<<"body", SelectSeq(DeclOrder, FailsAlone)[i]>>,
                     "value_error.missing", NoCtx)]
         /\ response.outcome = "success" <=> response.errors = <<>>
    /\ request.route = "update_item" =>
         /\ CASE request.body.t \in {"absent", "null"} -> WholeBodyError("Missing")
              [] IsDict(request.body) ->
                   response.errors = PathErrors \o
                       Concat([i \in 1..Len(Item) |-> OwnErrors(Item[i].name)])
              [] OTHER -> WholeBodyError("TypeMismatch")
         /\ IsDict(request.body) =>
              \A i \in 1..Len(Item) :
                  /\ Item[i].type.k /= "list" => Len(OwnErrors(Item[i].name)) <= 1
                  /\ FailsAlone(Item[i].name) <=>
                       \E j \in 1..Len(response.errors) :
                           ErrField(response.errors[j]) = Item[i].name
         /\ response.outcome = "success" <=> response.errors = <<>>
         /\ response.outcome \in {"success", "validation_failure"}

C2_Witness ==
    /\ Rejected("update_item")
    /\ Len(response.errors) >= 4
    /\ response.errors[1].loc = <<"path", "item_id">>
    /\ response.errors[2].kind = "Missing"
    /\ \E i \in 1..Len(response.errors) : response.errors[i].kind = "ConstraintViolation"
    /\ \E i \in 1..Len(response.errors) : response.errors[i].loc = <<"body", "tags", "1">>

IsNumber(v) == v.t \in {"float", "int"}

\* In ten-thousandths.
NumberValue(v) == IF v.t = "int" THEN v.i * 10000 ELSE v.f

ReportsNotGt(loc) ==
    \E i \in 1..Len(response.errors) :
        /\ response.errors[i].loc = loc
        /\ response.errors[i].kind = "ConstraintViolation"
        /\ response.errors[i].ctx = [constraint |-> "gt", limit_value |-> 0]

Reports(loc) == \E i \in 1..Len(response.errors) : response.errors[i].loc = loc

\* C3: the price of an Item is checked strictly against 0, in the body of
\* PUT /items/{item_id} and in every item of POST /offers: 0 and every
\* negative price are a ConstraintViolation, every price above 0 passes.
C3_PriceStrict ==
    /\ (request.route = "update_item" /\ request.body.t = "obj"
          /\ "price" \in DOMAIN request.body.o /\ IsNumber(request.body.o.price)) =>
         IF NumberValue(request.body.o.price) > 0
         THEN ~Reports(<<"body", "price">>)
         ELSE ReportsNotGt(<<"body", "price">>) /\ response.outcome = "validation_failure"
    /\ (request.route = "create_offer" /\ request.body.t = "obj"
          /\ "items" \in DOMAIN request.body.o) =>
         \A i \in 1..Len(request.body.o.items.l) :
             IF NumberValue(request.body.o.items.l[i].o.price) > 0
             THEN ~Reports(<<"body", "items", ToString(i - 1), "price">>)
             ELSE /\ ReportsNotGt(<<"body", "items", ToString(i - 1), "price">>)
                  /\ response.outcome = "validation_failure"

C3_Witness ==
    /\ Served("update_item")
    /\ request.body.o.price = Float(1)
    /\ response.body.o.item.o.price = Float(1)

C3_WitnessZero ==
    /\ Rejected("create_offer")
    /\ Len(request.body.o.items.l) = 1
    /\ request.body.o.items.l[1].o.price = Float(0)

\* C4: q on GET /items/ is accepted exactly when it is absent or 3 to 50
\* characters long; a shorter or longer one is a ConstraintViolation naming
\* the bound, and an absent q is null (the handler adds no q).
C4_QLength ==
    request.route = "read_items" =>
        IF "q" \notin DOMAIN request.query
        THEN response.outcome = "success" /\ "q" \notin Range(response.body.keys)
        ELSE IF Len(request.query.q) < 3
        THEN /\ response.outcome = "validation_failure"
             /\ Len(response.errors) = 1
             /\ response.errors[1].loc = <<"query", "q">>
             /\ response.errors[1].kind = "ConstraintViolation"
             /\ response.errors[1].ctx = [constraint |-> "min_length", limit_value |-> 3]
        ELSE IF Len(request.query.q) > 50
        THEN /\ response.outcome = "validation_failure"
             /\ Len(response.errors) = 1
             /\ response.errors[1].loc = <<"query", "q">>
             /\ response.errors[1].kind = "ConstraintViolation"
             /\ response.errors[1].ctx = [constraint |-> "max_length", limit_value |-> 50]
        ELSE /\ response.outcome = "success"
             /\ response.body.o["q"] = Str(request.query.q)

C4_Witness ==
    /\ Served("read_items")
    /\ "q" \in DOMAIN request.query
    /\ Len(request.query.q) = 50

C4_WitnessOver == Rejected("read_items") /\ Len(request.query.q) = 51

\* C5: GET /models/{model_name} answers each of alexnet, resnet and lenet
\* with that name and its own message; any other segment is a TypeMismatch
\* listing the three values and the handler is not run.
C5_ModelName ==
    request.route = "get_model" =>
        IF request.path_params.model_name \in {"alexnet", "resnet", "lenet"}
        THEN /\ response.outcome = "success"
             /\ response.body.keys = <<"model_name", "message">>
             /\ response.body.o.model_name = Str(request.path_params.model_name)
             /\ response.body.o.message =
                  Str(CASE request.path_params.model_name = "alexnet" -> "Deep Learning FTW!"
                        [] request.path_params.model_name = "lenet" -> "LeCNN all the images"
                        [] request.path_params.model_name = "resnet" -> "Have some residuals")
        ELSE /\ response.outcome = "validation_failure"
             /\ ~response.handler_ran
             /\ Len(response.errors) = 1
             /\ response.errors[1].loc = <<"path", "model_name">>
             /\ response.errors[1].kind = "TypeMismatch"
             /\ Range(response.errors[1].ctx.enum_values) = {"alexnet", "resnet", "lenet"}

C5_Witness ==
    /\ Served("get_model")
    /\ request.path_params.model_name = "lenet"
    /\ response.body.o.message = Str("LeCNN all the images")

C5_WitnessUnknown == Rejected("get_model") /\ request.path_params.model_name = "vgg"

\* The stored value as the Item model holds it.
Stored(id, name) ==
    IF name \in DOMAIN items.o[id].o
    THEN IF items.o[id].o[name].t = "int"
         THEN Float(items.o[id].o[name].i * 10000) ELSE items.o[id].o[name]
    ELSE CASE name = "description" -> Null
           [] name = "tax" -> Float(105000)
           [] name = "tags" -> List(<<>>)
           [] name = "image" -> Null

\* C6: for every stored item GET /items/{item_id}/name returns exactly name
\* and description (null when the record has none) and
\* GET /items/{item_id}/public every Item field but tax, defaults included,
\* both in the order the Item model declares them.
C6_IncludeExclude ==
    /\ (request.route = "read_item_name" /\ Known(items)) =>
         /\ response.outcome = "success"
         /\ response.body.keys = <<"name", "description">>
         /\ \A k \in {"name", "description"} :
              response.body.o[k] = Stored(request.path_params.item_id, k)
    /\ (request.route = "read_item_public_data" /\ Known(items)) =>
         /\ response.outcome = "success"
         /\ response.body.keys = <<"name", "description", "price", "tags", "image">>
         /\ \A k \in {"name", "description", "price", "tags", "image"} :
              response.body.o[k] = Stored(request.path_params.item_id, k)

C6_Witness ==
    /\ Served("read_item_name")
    /\ request.path_params.item_id = "foo"
    /\ response.body.o.description = Null

C6_WitnessPublic ==
    /\ Served("read_item_public_data")
    /\ request.path_params.item_id = "bar"
    /\ response.body.o.tags = List(<<>>)

\* C7: no handler writes the module-level tables: whatever requests were
\* served, fake_items_db, items and vehicle_items are as main.py built them.
C7_TablesUnchanged ==
    /\ fake_items_db = fake_items_db_0
    /\ items = items_0
    /\ vehicle_items = vehicle_items_0

C7_Witness ==
    /\ Served("update_item")
    /\ request.body.o.name = Str("Foo")
    /\ items = items_0

C7_WitnessUser == Served("create_user") /\ items = items_0

LookupRoutes ==
    {"read_item_id", "read_item_name", "read_item_public_data", "read_vehicle_item"}

\* C8: every request to a lookup route ends in a shaped record or a
\* structured error; no item_id makes the handler raise.
C8_NoUnhandledException ==
    request.route \in LookupRoutes =>
        response.outcome \in {"success", "validation_failure"}

\* C9: GET /users/{u}/items/{x}?needy=n with an integer u and no other
\* query parameter binds, and answers owner_id = u, needy = n, item_id = x.
C9_PathItemId ==
    (request.route = "read_user_item" /\ IsIntText(request.path_params.user_id)
       /\ DOMAIN request.query = {"needy"}) =>
        /\ response.outcome = "success"
        /\ response.body.o.owner_id = IntV(ParseInt(request.path_params.user_id))
        /\ response.body.o.needy = Str(request.query.needy)
        /\ response.body.o.item_id = Str(request.path_params.items_id)

\* The request with another password in its body.
WithPassword(req, pw) ==
    [req EXCEPT !.body.o = [k \in DOMAIN req.body.o |->
                              IF k = "password" THEN Str(pw) ELSE req.body.o[k]]]

\* C10: POST /user/ with a valid body answers exactly username, email and
\* full_name, and the answer is the same whatever the password is.
C10_PasswordHidden ==
    Served("create_user") =>
        /\ response.body.keys = <<"username", "email", "full_name">>
        /\ \A k \in {"username", "email"} : response.body.o[k] = request.body.o[k]
        /\ \A pw \in {"pw1", "pw2", "another"} :
             Handle(R_create_user, WithPassword(request, pw)).resp = response

C10_Witness ==
    /\ Served("create_user")
    /\ request.body.o.password = Str("pw2")
    /\ response.body.o.full_name = Str("Ann Lee")

====
